---- MODULE Spec2Model ----
(***************************************************************************)
(* JerryParser (src/main.cpp): extraction of Jerry Talisman purchases from *)
(* chat-log text by a regular expression, classification of each match,    *)
(* and the aggregation done by main.                                       *)
(*                                                                         *)
(* Text is a sequence of one-character strings, so the regular expression  *)
(* is matched character by character as std::regex (ECMAScript grammar)    *)
(* matches it.                                                             *)
(***************************************************************************)
EXTENDS Integers, Sequences, FiniteSets, TLC

\* ------------------------------------------------------------------------
\* Bounds of the model
\* ------------------------------------------------------------------------
\* announcements per log text
MaxAnn == 2
\* purchases per aggregation run
MaxPurchases == 2

\* ------------------------------------------------------------------------
\* Literals of the pattern and of the inputs
\* ------------------------------------------------------------------------
YouPurchased == <<"Y", "o", "u", " ", "p", "u", "r", "c", "h", "a", "s", "e", "d", " ">>
Jerry == <<" ", "J", "e", "r", "r", "y", " ">>
Talisman == <<"T", "a", "l", "i", "s", "m", "a", "n">>
Artifact == <<"A", "r", "t", "i", "f", "a", "c", "t">>
Relic == <<"R", "e", "l", "i", "c">>
ForLit == <<"f", "o", "r", " ">>
Coins == <<" ", "c", "o", "i", "n", "s">>
Green == <<"G", "r", "e", "e", "n">>
Blue == <<"B", "l", "u", "e">>
PurPle == <<"P", "u", "r", "P", "l", "e">>
Purple == <<"P", "u", "r", "p", "l", "e">>
Golden == <<"G", "o", "l", "d", "e", "n">>
Red == <<"R", "e", "d">>

Digits == {"0", "1", "2", "3", "4", "5", "6", "7", "8", "9"}
\* the character class [0-9,] of the pattern
CostChars == Digits \cup {","}

\* the color alternation (Green|Blue|PurPle|Golden) of the pattern
Colors == {Green, Blue, PurPle, Golden}

\* the item alternation (Talisman|Artifact) of the pattern
ItemsWithRelic == {Talisman, Artifact, Relic}

Items == {Talisman, Artifact}

SetMax(S) == CHOOSE x \in S : \A y \in S : y <= x
SetMin(S) == CHOOSE x \in S : \A y \in S : x <= y

\* ------------------------------------------------------------------------
\* The regular expression
\*   You purchased .+(.)(Green|Blue|PurPle|Golden) Jerry (Talisman|Artifact) .+for .+?([0-9,]+) coins
\* ------------------------------------------------------------------------
\* '.' matches every character but a line terminator
IsDot(c) == c \notin {"\n", "\r"}

\* the literal lit stands in t at position p
At(t, p, lit) ==
  /\ p >= 1
  /\ p + Len(lit) - 1 <= Len(t)
  /\ \A i \in 1..Len(lit) : t[p + i - 1] = lit[i]

\* every character of t[a..b] is matched by '.'
DotRun(t, a, b) == \A i \in a..b : IsDot(t[i])

\* last position of the longest run of [0-9,] that starts at p
RunEnd(t, p) ==
  CHOOSE e \in p..Len(t) :
    /\ \A i \in p..e : t[i] \in CostChars
    /\ (e = Len(t) \/ t[e + 1] \notin CostChars)

\* ".+?([0-9,]+) coins" from position d: the positions where group 4 can start
CostStarts(t, d) ==
  { q \in (d + 1)..Len(t) :
      /\ t[q] \in CostChars
      /\ DotRun(t, d, q - 1)
      /\ At(t, RunEnd(t, q) + 1, Coins) }

\* ".+for " from position b: the positions of "for " with a cost after it
ForStarts(t, b) ==
  { f \in (b + 1)..Len(t) :
      /\ At(t, f, ForLit)
      /\ DotRun(t, b, f - 1)
      /\ CostStarts(t, f + Len(ForLit)) # {} }

\* "(color) Jerry (item) " right after the rarity character at position r
Heads(t, r) ==
  { h \in Colors \X Items : At(t, r + 1, h[1] \o Jerry \o h[2] \o <<" ">>) }

AfterHead(r, h) == r + 1 + Len(h[1]) + Len(Jerry) + Len(h[2]) + 1

\* "You purchased .+(.)" from position s: the positions of group 1 for which
\* the rest of the pattern matches
RarityPos(t, s) ==
  { r \in (s + Len(YouPurchased) + 1)..Len(t) :
      /\ Heads(t, r) # {}
      /\ DotRun(t, s + Len(YouPurchased), r)
      /\ \E h \in Heads(t, r) : ForStarts(t, AfterHead(r, h)) # {} }

NoMatch == [found |-> FALSE]

\* the match that starts at s: the greedy ".+" take the longest text for which
\* the rest matches, the lazy ".+?" the shortest
MatchAt(t, s) ==
  IF ~At(t, s, YouPurchased) \/ RarityPos(t, s) = {} THEN NoMatch
  ELSE
    LET r == SetMax(RarityPos(t, s))
        h == CHOOSE g \in Heads(t, r) : ForStarts(t, AfterHead(r, g)) # {}
        f == SetMax(ForStarts(t, AfterHead(r, h)))
        q == SetMin(CostStarts(t, f + Len(ForLit)))
        e == RunEnd(t, q)
    IN [found |-> TRUE, rarity |-> t[r], color |-> h[1],
        cost |-> SubSeq(t, q, e), end |-> e + Len(Coins) + 1]

RegexSearchFirstOnly(t, from) ==
  LET S == { s \in from..Len(t) : At(t, s, YouPurchased) /\ MatchAt(t, s).found }
  IN IF S = {} \/ from > 1 THEN NoMatch ELSE MatchAt(t, SetMin(S))

\* std::sregex_iterator: the leftmost match at or after position from
RegexSearch(t, from) ==
  LET S == { s \in from..Len(t) : At(t, s, YouPurchased) /\ MatchAt(t, s).found }
  IN IF S = {} THEN NoMatch ELSE MatchAt(t, SetMin(S))

\* ------------------------------------------------------------------------
\* Cost parsing
\* ------------------------------------------------------------------------
DigitVal(c) ==
  CASE c = "0" -> 0 [] c = "1" -> 1 [] c = "2" -> 2 [] c = "3" -> 3
    [] c = "4" -> 4 [] c = "5" -> 5 [] c = "6" -> 6 [] c = "7" -> 7
    [] c = "8" -> 8 [] c = "9" -> 9

\* std::remove(begin, end, ',') followed by erase
RemoveCommas(s) == SelectSeq(s, LAMBDA c : c # ",")

\* std::string::erase(0, 1)
EraseFirst(s) == IF s = <<>> THEN s ELSE Tail(s)

LLONG_MAX_DIGITS == <<"9", "2", "2", "3", "3", "7", "2", "0", "3", "6", "8", "5", "4", "7", "7", "5", "8", "0", "7">>

RECURSIVE StripZeros(_)
StripZeros(s) == IF s # <<>> /\ Head(s) = "0" THEN StripZeros(Tail(s)) ELSE s

RECURSIVE DigitsGreater(_, _)
\* a > b for digit strings of the same length
DigitsGreater(a, b) ==
  IF a = <<>> THEN FALSE
  ELSE IF Head(a) # Head(b) THEN DigitVal(Head(a)) > DigitVal(Head(b))
  ELSE DigitsGreater(Tail(a), Tail(b))

\* the digit string is more than LLONG_MAX
OutOfRange(s) ==
  LET z == StripZeros(s)
  IN \/ Len(z) > Len(LLONG_MAX_DIGITS)
     \/ Len(z) = Len(LLONG_MAX_DIGITS) /\ DigitsGreater(z, LLONG_MAX_DIGITS)

RECURSIVE StollAcc(_, _)
StollAcc(s, acc) ==
  IF s = <<>> THEN acc ELSE StollAcc(Tail(s), 10 * acc + DigitVal(Head(s)))

\* std::stoll on a string of digits: no digit throws std::invalid_argument,
\* a value above LLONG_MAX throws std::out_of_range
Stoll(s) ==
  IF s = <<>> \/ OutOfRange(s) THEN [ok |-> FALSE, val |-> 0]
  ELSE [ok |-> TRUE, val |-> StollAcc(s, 0)]

ParseCostKeepDigit(costStr) ==
  LET s == RemoveCommas(costStr)
      r == Stoll(IF s # <<>> /\ Head(s) \notin Digits THEN Tail(s) ELSE s)
  IN IF r.ok THEN r.val ELSE 0

ParseCostFailNegative(costStr) ==
  LET r == Stoll(EraseFirst(RemoveCommas(costStr)))
  IN IF r.ok THEN r.val ELSE -1

\* commas removed, first character erased, std::stoll, 0 when it throws
ParseCost(costStr) ==
  LET r == Stoll(EraseFirst(RemoveCommas(costStr)))
  IN IF r.ok THEN r.val ELSE 0

\* ------------------------------------------------------------------------
\* Classification
\* ------------------------------------------------------------------------
KnownTypes == {"GREEN", "BLUE", "PURPLE", "GOLDEN"}
JerryType == KnownTypes \cup {"UNKNOWN"}

JerryTypeOfColor(color) ==
  IF color = Green THEN "GREEN"
  ELSE IF color = Blue THEN "BLUE"
  ELSE IF color = Purple THEN "PURPLE"
  ELSE IF color = Golden THEN "GOLDEN"
  ELSE "UNKNOWN"

IsRecombobulatedAnyNine(type, rarity) ==
  \/ rarity = "9"
  \/ type = "BLUE" /\ rarity = "5"
  \/ type = "PURPLE" /\ rarity = "6"
  \/ type = "GOLDEN" /\ rarity = "d"

IsRecombobulated(type, rarity) ==
  \/ type = "GREEN" /\ rarity = "9"
  \/ type = "BLUE" /\ rarity = "5"
  \/ type = "PURPLE" /\ rarity = "6"
  \/ type = "GOLDEN" /\ rarity = "d"

\* the TalismanPurchase pushed for a match
MakePurchase(m) ==
  LET type == JerryTypeOfColor(m.color)
  IN [type |-> type,
      recombobulated |-> IsRecombobulated(type, m.rarity),
      cost |-> ParseCost(m.cost)]

\* ------------------------------------------------------------------------
\* Log texts
\* ------------------------------------------------------------------------
\* An announcement is the line
\*   "You purchased " pre rarity color " Jerry " item " " mid "for " cpre tok " coins"
\* where tok is code followed by the amount as text, and n is the amount the
\* announcement states (-1: none that a long long holds).
Amount(text, n) == [text |-> text, n |-> n]

A12500 == Amount(<<"1", "2", ",", "5", "0", "0">>, 12500)
A1234567 == Amount(<<"1", ",", "2", "3", "4", ",", "5", "6", "7">>, 1234567)
A100 == Amount(<<"1", "0", "0">>, 100)
A5 == Amount(<<"5">>, 5)
A0 == Amount(<<"0">>, 0)
AHuge == Amount(<<"9", "9", "9", "9", "9", "9", "9", "9", "9", "9", "9", "9", "9", "9", "9", "9", "9", "9", "9", "9", "9", "9">>, -1)
ANone == Amount(<<>>, -1)
AComma == Amount(<<",">>, -1)

Amounts == {A12500, A1234567, A100, A5, A0, AHuge, ANone, AComma}

Rarities == {"9", "5", "6", "d", "a"}
AllColors == {Green, Blue, Purple, PurPle, Golden, Red}
FourColors == {Green, Blue, Purple, Golden}
AllItems == {Talisman, Artifact, Relic}

Section == <<"§", "r", "§">>

\* the line as the game client logs it: formatting codes before the color,
\* before "for" and before the amount, whose own color code is the digit 6
AnnLog(r, c, i, am) ==
  [pre |-> Section, rarity |-> r, color |-> c, item |-> i,
   mid |-> Section \o <<"a">>, cpre |-> Section, code |-> <<"6">>,
   tok |-> <<"6">> \o am.text, n |-> am.n]

\* the line without formatting codes but a currency symbol before the amount
AnnPlain(r, c, i, am) ==
  [pre |-> <<"a", " ">>, rarity |-> r, color |-> c, item |-> i,
   mid |-> <<>>, cpre |-> <<"§">>, code |-> <<>>, tok |-> am.text, n |-> am.n]

\* variations of what stands between "for " and " coins"
AnnCost(cpre, code, am) ==
  [pre |-> Section, rarity |-> "9", color |-> Green, item |-> Talisman,
   mid |-> Section \o <<"a">>, cpre |-> cpre, code |-> code,
   tok |-> code \o am.text, n |-> am.n]

SingleAnns ==
  { AnnLog(r, c, i, am) : r \in Rarities, c \in AllColors, i \in AllItems, am \in {A12500, A0} }
  \cup { AnnPlain(r, c, Talisman, am) : r \in Rarities, c \in FourColors, am \in {A12500, A1234567} }
  \cup { AnnCost(cp, cd, am) : cp \in {<<>>, <<"§">>, Section}, cd \in {<<>>, <<"6">>}, am \in Amounts }

\* the announcements that texts of several announcements are made of
SeveralAnns ==
  { AnnLog("9", Green, Talisman, A12500),
    AnnLog("9", Blue, Talisman, A100),
    AnnLog("d", Golden, Artifact, AHuge),
    AnnLog("6", PurPle, Talisman, A5),
    AnnLog("5", Blue, Relic, A100),
    AnnLog("a", Green, Talisman, ANone) }

\* what stands between two announcements
Separators == {<<"\n">>, <<"\n", "h", "i", "\n">>, <<" ", "h", "i", " ">>}

RenderAnn(a) ==
  YouPurchased \o a.pre \o <<a.rarity>> \o a.color \o Jerry \o a.item \o <<" ">>
    \o a.mid \o ForLit \o a.cpre \o a.tok \o Coins

RECURSIVE RenderFrom(_, _, _)
RenderFrom(anns, seps, k) ==
  IF k > Len(anns) THEN <<>>
  ELSE RenderAnn(anns[k])
         \o (IF k < Len(anns) THEN seps[k] ELSE <<>>)
         \o RenderFrom(anns, seps, k + 1)

\* the log text of an input
Render(in) ==
  IF in.anns = <<>> THEN <<"h", "i", "\n">> ELSE RenderFrom(in.anns, in.seps, 1)

Inputs ==
  { [anns |-> <<>>, seps |-> <<>>] }
  \cup { [anns |-> <<a>>, seps |-> <<>>] : a \in SingleAnns }
  \cup UNION { { [anns |-> as, seps |-> ss] : as \in [1..k -> SeveralAnns], ss \in [1..(k - 1) -> Separators] }
               : k \in 2..MaxAnn }

\* ------------------------------------------------------------------------
\* Aggregation (main)
\* ------------------------------------------------------------------------
\* the counters main declares, all 0
ZeroCounts ==
  [totalCost |-> 0,
   greenCount |-> 0, recomGreenCount |-> 0,
   blueCount |-> 0, recomBlueCount |-> 0,
   purpleCount |-> 0, recomPurpleCount |-> 0,
   goldenCount |-> 0, recomGoldenCount |-> 0]

\* the counter the switch increments for a purchase of a known type
CounterOf(type, recombobulated) ==
  CASE type = "GREEN" -> IF recombobulated THEN "recomGreenCount" ELSE "greenCount"
    [] type = "BLUE" -> IF recombobulated THEN "recomBlueCount" ELSE "blueCount"
    [] type = "PURPLE" -> IF recombobulated THEN "recomPurpleCount" ELSE "purpleCount"
    [] type = "GOLDEN" -> IF recombobulated THEN "recomGoldenCount" ELSE "goldenCount"

AddPurchaseUnknownAsGreen(acc, p) ==
  LET c == [acc EXCEPT !.totalCost = @ + p.cost]
  IN IF p.type \in KnownTypes
     THEN [c EXCEPT ![CounterOf(p.type, p.recombobulated)] = @ + 1]
     ELSE [c EXCEPT !.greenCount = @ + 1]

AddPurchaseAssignCost(acc, p) ==
  LET c == [acc EXCEPT !.totalCost = p.cost]
  IN IF p.type \in KnownTypes
     THEN [c EXCEPT ![CounterOf(p.type, p.recombobulated)] = @ + 1]
     ELSE c

\* one turn of the loop over allPurchases
AddPurchase(acc, p) ==
  LET c == [acc EXCEPT !.totalCost = @ + p.cost]
  IN IF p.type \in KnownTypes
     THEN [c EXCEPT ![CounterOf(p.type, p.recombobulated)] = @ + 1]
     ELSE c

TotalGreenEquivalentRecomDouble(c) ==
  c.greenCount + c.recomGreenCount * 2
    + c.blueCount * 5 + c.recomBlueCount * 10
    + c.purpleCount * 25 + c.recomPurpleCount * 50
    + c.goldenCount * 125 + c.recomGoldenCount * 250

TotalGreenEquivalent(c) ==
  c.greenCount + c.recomGreenCount
    + c.blueCount * 5 + c.recomBlueCount * 5
    + c.purpleCount * 25 + c.recomPurpleCount * 25
    + c.goldenCount * 125 + c.recomGoldenCount * 125

AdjustedCost(c, price) ==
  c.totalCost
    - (c.recomGreenCount + c.recomBlueCount + c.recomPurpleCount + c.recomGoldenCount) * price

AvgPricePerGreenFloor(adjusted, equivalent) ==
  IF equivalent > 0 THEN adjusted \div equivalent ELSE 0

\* static_cast<long long>(static_cast<double>(adjusted) / equivalent): the
\* quotient without its fraction. The conversion to double is exact up to
\* 2^53, far above the amounts of this model.
AvgPricePerGreen(adjusted, equivalent) ==
  IF equivalent > 0
  THEN IF adjusted >= 0 THEN adjusted \div equivalent
       ELSE 0 - ((0 - adjusted) \div equivalent)
  ELSE 0

RECURSIVE FoldPurchases(_, _)
FoldPurchases(acc, ps) ==
  IF ps = <<>> THEN acc ELSE FoldPurchases(AddPurchase(acc, Head(ps)), Tail(ps))

\* everything main computes from allPurchases and the price
Aggregate(ps, price) ==
  LET c == FoldPurchases(ZeroCounts, ps)
      equivalent == TotalGreenEquivalent(c)
      adjusted == AdjustedCost(c, price)
  IN [counts |-> c, totalGreenEquivalent |-> equivalent, adjustedCost |-> adjusted,
      avgPricePerGreen |-> AvgPricePerGreen(adjusted, equivalent)]

\* the purchases ExtractJerryPurchases can return
Costs == {100, 500}
Prices == {50, 1000}

PurchaseSet ==
  { [type |-> ty, recombobulated |-> rc, cost |-> co] :
      ty \in KnownTypes, rc \in BOOLEAN, co \in Costs }
  \cup { [type |-> "UNKNOWN", recombobulated |-> FALSE, cost |-> co] : co \in Costs }

PurchaseSeqs == UNION { [1..k -> PurchaseSet] : k \in 0..MaxPurchases }

\* the purchases of two selected files
TwoFiles ==
  UNION { { <<SubSeq(ps, 1, k), SubSeq(ps, k + 1, Len(ps))>> : k \in 0..Len(ps) }
            : ps \in PurchaseSeqs }

\* ------------------------------------------------------------------------
\* State
\* ------------------------------------------------------------------------
VARIABLES
  input,        \* the announcements logContent was written from
  logContent,   \* the parameter of ExtractJerryPurchases
  it,           \* the sregex_iterator: its current match, or NoMatch at the end
  raw,          \* the groups 1, 2 and 4 of the matches seen so far
  purchases,    \* the vector ExtractJerryPurchases builds
  pc,           \* ExtractJerryPurchases: "loop", "done" ("idle" in main)
  extracted,    \* main: what ExtractJerryPurchases returned for each selected file
  recombobulatorPrice,
  fileIdx,      \* main: the next file of selectedFiles
  allPurchases,
  idx,          \* main: the next purchase of the loop over allPurchases
  counts,       \* main: totalCost and the eight counters
  totalGreenEquivalent,
  adjustedCost,
  avgPricePerGreen,
  mpc           \* main: "files", "sum", "done" ("idle" in ExtractJerryPurchases)

extractVars == <<input, logContent, it, raw, purchases, pc>>

mainVars == <<extracted, recombobulatorPrice, fileIdx, allPurchases, idx, counts,
              totalGreenEquivalent, adjustedCost, avgPricePerGreen, mpc>>

vars == <<input, logContent, it, raw, purchases, pc,
          extracted, recombobulatorPrice, fileIdx, allPurchases, idx, counts,
          totalGreenEquivalent, adjustedCost, avgPricePerGreen, mpc>>

ExtractIdle ==
  /\ input = [anns |-> <<>>, seps |-> <<>>]
  /\ logContent = <<>>
  /\ it = NoMatch
  /\ raw = <<>>
  /\ purchases = <<>>
  /\ pc = "idle"

MainIdle ==
  /\ extracted = <<>>
  /\ recombobulatorPrice = 0
  /\ fileIdx = 1
  /\ allPurchases = <<>>
  /\ idx = 1
  /\ counts = ZeroCounts
  /\ totalGreenEquivalent = 0
  /\ adjustedCost = 0
  /\ avgPricePerGreen = 0
  /\ mpc = "idle"

\* ------------------------------------------------------------------------
\* ExtractJerryPurchases
\* ------------------------------------------------------------------------
Init ==
  /\ input \in Inputs
  /\ logContent = Render(input)
  /\ it = RegexSearch(logContent, 1)
  /\ raw = <<>>
  /\ purchases = <<>>
  /\ pc = "loop"
  /\ MainIdle

\* one turn of "for (; it != end; ++it)"
LoopBody ==
  /\ pc = "loop"
  /\ it.found
  /\ raw' = Append(raw, [rarity |-> it.rarity, color |-> it.color, costStr |-> it.cost])
  /\ purchases' = Append(purchases, MakePurchase(it))
  /\ it' = RegexSearch(logContent, it.end)
  /\ UNCHANGED <<input, logContent, pc>>
  /\ UNCHANGED mainVars

\* it == end: return purchases
Return ==
  /\ pc = "loop"
  /\ ~it.found
  /\ pc' = "done"
  /\ UNCHANGED <<input, logContent, it, raw, purchases>>
  /\ UNCHANGED mainVars

Next == LoopBody \/ Return

Spec == Init /\ [][Next]_vars

\* ------------------------------------------------------------------------
\* main, from the loop over the selected files on
\* ------------------------------------------------------------------------
InitMain ==
  /\ ExtractIdle
  /\ extracted \in TwoFiles
  /\ recombobulatorPrice \in Prices
  /\ fileIdx = 1
  /\ allPurchases = <<>>
  /\ idx = 1
  /\ counts = ZeroCounts
  /\ totalGreenEquivalent = 0
  /\ adjustedCost = 0
  /\ avgPricePerGreen = 0
  /\ mpc = "files"

\* one turn of the loop over selectedFiles
ProcessFile ==
  /\ mpc = "files"
  /\ fileIdx <= Len(extracted)
  /\ allPurchases' = allPurchases \o extracted[fileIdx]
  /\ fileIdx' = fileIdx + 1
  /\ UNCHANGED <<extracted, recombobulatorPrice, idx, counts, totalGreenEquivalent,
                 adjustedCost, avgPricePerGreen, mpc>>
  /\ UNCHANGED extractVars

\* all files read: the loop over allPurchases starts
FilesDone ==
  /\ mpc = "files"
  /\ fileIdx > Len(extracted)
  /\ mpc' = "sum"
  /\ UNCHANGED <<extracted, recombobulatorPrice, fileIdx, allPurchases, idx, counts,
                 totalGreenEquivalent, adjustedCost, avgPricePerGreen>>
  /\ UNCHANGED extractVars

\* one turn of the loop over allPurchases
Accumulate ==
  /\ mpc = "sum"
  /\ idx <= Len(allPurchases)
  /\ counts' = AddPurchase(counts, allPurchases[idx])
  /\ idx' = idx + 1
  /\ UNCHANGED <<extracted, recombobulatorPrice, fileIdx, allPurchases,
                 totalGreenEquivalent, adjustedCost, avgPricePerGreen, mpc>>
  /\ UNCHANGED extractVars

\* after the loop: the equivalent, the adjusted cost and the average
Summarize ==
  /\ mpc = "sum"
  /\ idx > Len(allPurchases)
  /\ totalGreenEquivalent' = TotalGreenEquivalent(counts)
  /\ adjustedCost' = AdjustedCost(counts, recombobulatorPrice)
  /\ avgPricePerGreen' =
       AvgPricePerGreen(AdjustedCost(counts, recombobulatorPrice), TotalGreenEquivalent(counts))
  /\ mpc' = "done"
  /\ UNCHANGED <<extracted, recombobulatorPrice, fileIdx, allPurchases, idx, counts>>
  /\ UNCHANGED extractVars

NextMain == ProcessFile \/ FilesDone \/ Accumulate \/ Summarize

SpecMain == InitMain /\ [][NextMain]_vars

\* ------------------------------------------------------------------------
\* What the claims speak of
\* ------------------------------------------------------------------------
\* the digits of a cost token
DigitsOf(tok) == SelectSeq(tok, LAMBDA c : c \in Digits)

RECURSIVE Spell(_)
\* the number a string of digits spells
Spell(d) ==
  IF d = <<>> THEN 0 ELSE 10 * Spell(SubSeq(d, 1, Len(d) - 1)) + DigitVal(d[Len(d)])

\* the tier of each of the four colors
TierOfColor(c) ==
  CASE c = Green -> "GREEN" [] c = Blue -> "BLUE" [] c = Purple -> "PURPLE"
    [] c = Golden -> "GOLDEN" [] OTHER -> "UNKNOWN"

\* the rarity code that marks each color as recombobulated
RecombobulatedCodes == {<<Green, "9">>, <<Blue, "5">>, <<Purple, "6">>, <<Golden, "d">>}

\* the purchase an announcement of amount n describes
ClaimedPurchase(a) ==
  [type |-> TierOfColor(a.color),
   recombobulated |-> <<a.color, a.rarity>> \in RecombobulatedCodes,
   cost |-> a.n]

\* "You purchased a <r><C> Jerry Talisman for §<n> coins"
PlainLine(a) ==
  /\ a.pre = <<"a", " ">> /\ a.mid = <<>> /\ a.cpre = <<"§">> /\ a.code = <<>>
  /\ a.item = Talisman /\ a.color \in FourColors /\ a.n >= 0

\* "You purchased §r§<r><C> Jerry Talisman §r§afor §r§6<n> coins"
LogLine(a) ==
  /\ a.pre = Section /\ a.mid = Section \o <<"a">> /\ a.cpre = Section /\ a.code = <<"6">>
  /\ a.item = Talisman /\ a.color \in FourColors /\ a.n >= 0

OneLine == Len(input.anns) = 1
TheLine == input.anns[1]

\* every announcement of the text stands on a line of its own
OwnLines == \A k \in 1..Len(input.seps) : \E j \in 1..Len(input.seps[k]) : input.seps[k][j] = "\n"

\* what group 4 of the pattern takes of an announcement that is alone on its
\* line: the run of digits and commas before " coins", without its first
\* character when nothing stands between "for " and the run
Captured(a) == IF a.cpre # <<>> \/ a.tok = <<>> THEN a.tok ELSE Tail(a.tok)

\* the announcement, alone on its line, is one the pattern accepts
Accepted(a) ==
  /\ a.color \in {Green, Blue, PurPle, Golden}
  /\ a.item \in {Talisman, Artifact}
  /\ a.pre # <<>>
  /\ a.mid # <<>>
  /\ Captured(a) # <<>>

\* the cost read from a token: the number spelled by its digits but the first,
\* 0 when none is left or the number does not fit a long long
CostRead(tok) ==
  LET d == DigitsOf(tok)
  IN IF Len(d) <= 1 \/ Len(d) - 1 > Len(LLONG_MAX_DIGITS) THEN 0
     ELSE Spell(Tail(d))

Unparsable(tok) ==
  LET d == DigitsOf(tok) IN Len(d) <= 1 \/ Len(d) - 1 > Len(LLONG_MAX_DIGITS)

\* the purchase the code makes of an accepted announcement
ReadPurchase(a) ==
  [type |-> TierOfColor(a.color),
   recombobulated |-> <<a.color, a.rarity>> \in RecombobulatedCodes,
   cost |-> CostRead(Captured(a))]

RECURSIVE ReadAll(_)
ReadAll(anns) ==
  IF anns = <<>> THEN <<>>
  ELSE (IF Accepted(Head(anns)) THEN <<ReadPurchase(Head(anns))>> ELSE <<>>)
         \o ReadAll(Tail(anns))

C2_Original ==
  \A i \in 1..Len(purchases) :
    LET d == DigitsOf(raw[i].costStr)
    IN (Len(d) >= 1 /\ Len(d) <= Len(LLONG_MAX_DIGITS) - 1) => purchases[i].cost = Spell(d)

\* C2 amended: the commas are removed, then the first character left, always a
\* digit, is removed, and the rest is parsed: the cost is the number spelled by
\* the digits but the first ("1,234,567" gives 234567), 0 when no digit is left
\* or the number does not fit.
C2_Amended ==
  \A i \in 1..Len(purchases) :
    /\ purchases[i].cost = CostRead(raw[i].costStr)
    /\ raw[i].costStr = A1234567.text => purchases[i].cost = 234567
    /\ raw[i].costStr = <<"6">> \o A12500.text => purchases[i].cost = 12500

C2_Witness ==
  /\ pc = "done"
  /\ Len(purchases) = 1
  /\ raw[1].costStr = A1234567.text
  /\ purchases[1].cost = 234567

\* C3: every purchase has cost >= 0; a token that cannot be parsed (nothing
\* left of it, or out of range) gives a purchase of cost 0, and the matches
\* after it are still turned into purchases.
C3_CostNeverNegative ==
  /\ \A i \in 1..Len(purchases) :
       /\ purchases[i].cost >= 0
       /\ Unparsable(raw[i].costStr) => purchases[i].cost = 0
  /\ (pc = "done" /\ OwnLines) =>
       Len(purchases) = Cardinality({k \in 1..Len(input.anns) : Accepted(input.anns[k])})

C3_Witness ==
  /\ pc = "done"
  /\ Len(purchases) = 2
  /\ Unparsable(raw[1].costStr)
  /\ Len(DigitsOf(raw[1].costStr)) > 1
  /\ purchases[1].cost = 0
  /\ purchases[2].cost > 0

\* C4 as stated: k announcements, on separate lines or on the same line, give
\* k purchases, one per announcement, in the order of the text.
C4_Original ==
  (pc = "done" /\ \A k \in 1..Len(input.anns) : Accepted(input.anns[k]))
    => purchases = ReadAll(input.anns)

\* C4 amended: k announcements, each on a line of its own, give k purchases,
\* one per announcement, in the order of the text, each with the rarity code,
\* color and cost of its own announcement; two announcements that share a line
\* give one purchase.
C4_Amended ==
  /\ (pc = "done" /\ OwnLines) => purchases = ReadAll(input.anns)
  /\ (pc = "done" /\ Len(input.anns) = 2 /\ ~OwnLines
        /\ \A k \in 1..2 : Accepted(input.anns[k])) => Len(purchases) = 1

C4_Witness ==
  /\ pc = "done"
  /\ Len(input.anns) = 2
  /\ OwnLines
  /\ Len(purchases) = 2
  /\ purchases[1] = [type |-> "BLUE", recombobulated |-> FALSE, cost |-> 100]
  /\ purchases[2] = [type |-> "GREEN", recombobulated |-> TRUE, cost |-> 12500]

\* C9 as stated: a line that names another item than "Jerry Talisman", such as
\* a "Jerry Artifact", yields no purchase.
C9_Original ==
  (pc = "done" /\ OneLine /\ TheLine.item # Talisman) => purchases = <<>>

\* C9 amended: a purchase is produced only for an announcement of a "Jerry
\* Talisman" or a "Jerry Artifact"; a line that names any other item yields no
\* purchase.
C9_Amended ==
  pc = "done" =>
    /\ Len(purchases) <= Cardinality({k \in 1..Len(input.anns) : input.anns[k].item \in {Talisman, Artifact}})
    /\ (OneLine /\ TheLine.item \notin {Talisman, Artifact}) => purchases = <<>>

C9_Witness ==
  /\ pc = "done"
  /\ input = [anns |-> <<AnnLog("9", Green, Relic, A12500)>>, seps |-> <<>>]
  /\ purchases = <<>>

\* C10: every color the pattern captures has its own known tier, so no
\* purchase has tier UNKNOWN, and an announcement of each of Green, Blue,
\* Purple, Golden is matched and gets the tier of its color.
C10_SameVocabulary ==
  /\ \A i \in 1..Len(purchases) : purchases[i].type # "UNKNOWN"
  /\ (pc = "done" /\ OneLine /\ LogLine(TheLine)) =>
       (Len(purchases) = 1 /\ purchases[1].type = TierOfColor(TheLine.color))

\* ------------------------------------------------------------------------
\* Claims about the aggregation of main (SpecMain)
\* ------------------------------------------------------------------------
\* how many of the purchases ps have the type ty and the flag rc
CountOf(ps, ty, rc) ==
  Cardinality({i \in 1..Len(ps) : ps[i].type = ty /\ ps[i].recombobulated = rc})

\* how many of the purchases ps have the type ty
CountType(ps, ty) == Cardinality({i \in 1..Len(ps) : ps[i].type = ty})

RECURSIVE SumCost(_)
SumCost(ps) == IF ps = <<>> THEN 0 ELSE Head(ps).cost + SumCost(Tail(ps))

RECURSIVE Reverse(_)
Reverse(ps) == IF ps = <<>> THEN <<>> ELSE Append(Reverse(Tail(ps)), Head(ps))

\* the purchases the loop over allPurchases has processed
Processed == SubSeq(allPurchases, 1, idx - 1)

\* the recombobulated purchases of known type
RecomCount(ps) ==
  Cardinality({i \in 1..Len(ps) : ps[i].type \in KnownTypes /\ ps[i].recombobulated})

Abs(x) == IF x >= 0 THEN x ELSE 0 - x

\* C5: after any prefix of the purchases, each of the eight counters is the
\* number of processed purchases of its (type, recombobulated) pair, so a
\* purchase of type UNKNOWN is in none of them, and totalCost is the sum of
\* the costs of all processed purchases.
C5_CountersOfPrefix ==
  /\ counts.greenCount = CountOf(Processed, "GREEN", FALSE)
  /\ counts.recomGreenCount = CountOf(Processed, "GREEN", TRUE)
  /\ counts.blueCount = CountOf(Processed, "BLUE", FALSE)
  /\ counts.recomBlueCount = CountOf(Processed, "BLUE", TRUE)
  /\ counts.purpleCount = CountOf(Processed, "PURPLE", FALSE)
  /\ counts.recomPurpleCount = CountOf(Processed, "PURPLE", TRUE)
  /\ counts.goldenCount = CountOf(Processed, "GOLDEN", FALSE)
  /\ counts.recomGoldenCount = CountOf(Processed, "GOLDEN", TRUE)
  /\ counts.totalCost = SumCost(Processed)

C5_Witness ==
  /\ mpc = "sum"
  /\ idx = 3
  /\ allPurchases[1] = [type |-> "UNKNOWN", recombobulated |-> FALSE, cost |-> 100]
  /\ allPurchases[2] = [type |-> "BLUE", recombobulated |-> TRUE, cost |-> 500]
  /\ counts = [ZeroCounts EXCEPT !.recomBlueCount = 1, !.totalCost = 600]

\* C6: the tier-equivalent total is 1 x the green, 5 x the blue, 25 x the
\* purple and 125 x the golden purchases, recombobulated or not; a purchase of
\* type UNKNOWN adds 0.
C6_EquivalentIsWeightedCount ==
  mpc = "done" =>
    totalGreenEquivalent =
      CountType(allPurchases, "GREEN") + 5 * CountType(allPurchases, "BLUE")
        + 25 * CountType(allPurchases, "PURPLE") + 125 * CountType(allPurchases, "GOLDEN")

C6_Witness ==
  /\ mpc = "done"
  /\ Len(allPurchases) = 2
  /\ allPurchases[1].type = "GOLDEN" /\ allPurchases[1].recombobulated
  /\ allPurchases[2].type = "UNKNOWN"
  /\ totalGreenEquivalent = 125

\* the adjusted cost and the tier-equivalent total of the claim
ClaimedAdjusted == SumCost(allPurchases) - RecomCount(allPurchases) * recombobulatorPrice

\* C7 as stated: the average is floor(adjusted / equivalent) when the
\* equivalent is > 0, also for a negative adjusted cost, and 0 otherwise.
C7_Original ==
  mpc = "done" =>
    /\ adjustedCost = ClaimedAdjusted
    /\ avgPricePerGreen =
         IF totalGreenEquivalent > 0 THEN ClaimedAdjusted \div totalGreenEquivalent ELSE 0

\* C7 amended: the average is adjusted / equivalent rounded toward zero when
\* the equivalent is > 0 (the floor for an adjusted cost >= 0, the ceiling for
\* a negative one), and 0 otherwise.
C7_Amended ==
  mpc = "done" =>
    /\ adjustedCost = ClaimedAdjusted
    /\ totalGreenEquivalent = 0 => avgPricePerGreen = 0
    /\ totalGreenEquivalent > 0 =>
         /\ Abs(avgPricePerGreen) * totalGreenEquivalent <= Abs(adjustedCost)
         /\ Abs(adjustedCost) < (Abs(avgPricePerGreen) + 1) * totalGreenEquivalent
         /\ adjustedCost >= 0 => avgPricePerGreen >= 0
         /\ adjustedCost <= 0 => avgPricePerGreen <= 0
    /\ (/\ allPurchases = <<[type |-> "GREEN", recombobulated |-> FALSE, cost |-> 100],
                            [type |-> "BLUE", recombobulated |-> TRUE, cost |-> 500]>>
        /\ recombobulatorPrice = 50) =>
         (/\ counts.totalCost = 600 /\ totalGreenEquivalent = 6
          /\ adjustedCost = 550 /\ avgPricePerGreen = 91)

C7_Witness ==
  /\ mpc = "done"
  /\ adjustedCost < 0
  /\ totalGreenEquivalent > 0
  /\ adjustedCost % totalGreenEquivalent # 0
  /\ avgPricePerGreen * totalGreenEquivalent > adjustedCost

\* C8: what main computes of the purchases of two files is, field by field,
\* the sum of what it computes of each file alone; the average is the one
\* computed from the summed adjusted cost and equivalent; and the order of the
\* files and of the purchases does not matter.
C8_Additive ==
  mpc = "done" =>
    LET a == Aggregate(extracted[1], recombobulatorPrice)
        b == Aggregate(extracted[2], recombobulatorPrice)
        result == [counts |-> counts, totalGreenEquivalent |-> totalGreenEquivalent,
                   adjustedCost |-> adjustedCost, avgPricePerGreen |-> avgPricePerGreen]
    IN /\ \A f \in DOMAIN counts : counts[f] = a.counts[f] + b.counts[f]
       /\ totalGreenEquivalent = a.totalGreenEquivalent + b.totalGreenEquivalent
       /\ adjustedCost = a.adjustedCost + b.adjustedCost
       /\ avgPricePerGreen =
            AvgPricePerGreen(a.adjustedCost + b.adjustedCost,
                             a.totalGreenEquivalent + b.totalGreenEquivalent)
       /\ Aggregate(extracted[2] \o extracted[1], recombobulatorPrice) = result
       /\ Aggregate(Reverse(allPurchases), recombobulatorPrice) = result

C8_Witness ==
  /\ mpc = "done"
  /\ Len(extracted[1]) = 1
  /\ Len(extracted[2]) = 1
  /\ extracted[1] # extracted[2]
  /\ counts.totalCost = 600

====
